---- MODULE Spec2Model ----
(***************************************************************************)
(* Model of rplacem/time_series.py: the TimeSeries object, its set_*       *)
(* operations and calc_kendall_tau.                                        *)
(*                                                                         *)
(* Conventions.                                                            *)
(*  - A numpy 1d array of length n is a function with domain 0..n-1.       *)
(*  - A real number is an exact fraction <<num, den>> in lowest terms with *)
(*    den > 0.  den = 0 encodes the IEEE results of a division by zero:    *)
(*    <<0,0>> is NaN, <<1,0>> is +inf, <<-1,0>> is -inf.                     *)
(*  - An optional value (a Python attribute that may be None, or may not   *)
(*    be set at all) is <<>> when absent and <<v>> when present.           *)
(*  - Times are integers counted in units of 2.5e-5 s, so that the 1e-4 of *)
(*    set_t_pts is EPS = 4 units.                                          *)
(*  - Arithmetic is exact.  The one place where floating-point rounding     *)
(*    decides a result, the number of points of np.arange when the exact   *)
(*    quotient is an integer, is a choice between the two possible counts. *)
(***************************************************************************)
EXTENDS Integers, Sequences, FiniteSets, TLC

VARIABLES self, last

vars == <<self, last>>

----------------------------------------------------------------------------
(* Bounds of the explored inputs *)

MaxLen == 3

MaxSw == 2

(* sample values of the series *)
Vals == {0, 1, 2}

(* sample values of the series whose ratio to the sliding mean is examined *)
RatioVals == {0, 1}

Widths == 1..MaxSw

(* Defaults of TimeSeries.__init__ (300 s is 12000000 time units) *)
DefaultTInterval == 12000000

DefaultTMin == 0

DefaultSwWidthMean == 40

DefaultSwWidthEws == 10

DefaultLabel == <<>>

(* tmin candidates: 0 s and 1 s *)
TMins == {DefaultTMin, 40000}

(* t_interval candidates: 7.5e-5 s and the default 300 s *)
TIntervals == {3, DefaultTInterval}

LabelAutocorr == <<"a", "u", "t", "o", "c", "o", "r", "r">>

Labels == {DefaultLabel, LabelAutocorr}

----------------------------------------------------------------------------
(* Generic helpers *)

Min(a, b) == IF a <= b THEN a ELSE b

Max(a, b) == IF a >= b THEN a ELSE b

Abs(a) == IF a < 0 THEN -a ELSE a

Sign(a) == IF a > 0 THEN 1 ELSE IF a < 0 THEN -1 ELSE 0

RECURSIVE GCD(_, _)
GCD(a, b) == IF b = 0 THEN a ELSE GCD(b, a % b)

None == <<>>

Some(v) == <<v>>

NaN == <<0, 0>>

(* n / d as numpy's true division gives it *)
Frac(n, d) ==
    IF d = 0 THEN <<Sign(n), 0>>
    ELSE LET g == GCD(Abs(n), Abs(d))
             s == IF d < 0 THEN -1 ELSE 1
         IN  <<(s * n) \div g, Abs(d) \div g>>

Whole(n) == <<n, 1>>

IsFinite(q) == q[2] > 0

IsNaN(q) == q[2] = 0 /\ q[1] = 0

RSub(a, b) == Frac(a[1] * b[2] - b[1] * a[2], a[2] * b[2])

RDiv(a, b) == Frac(a[1] * b[2], a[2] * b[1])

RLeq(a, b) == a[1] * b[2] <= b[1] * a[2]

(* arrays *)
Size(a) == Cardinality(DOMAIN a)

Arr(n, F(_)) == [i \in 0..(n - 1) |-> F(i)]

(* Python's normalisation of a slice bound k for a sequence of length n *)
SliceBound(k, n) == IF k < 0 THEN Max(k + n, 0) ELSE Min(k, n)

(* a[start:stop] *)
PySlice(a, start, stop) ==
    LET n  == Size(a)
        lo == SliceBound(start, n)
        hi == SliceBound(stop, n)
    IN  Arr(Max(hi - lo, 0), LAMBDA j : a[lo + j])

(* shapes (n,) and (m,) broadcast together *)
Broadcastable(n, m) == n = m \/ n = 1 \/ m = 1

BroadcastLen(n, m) == IF n = 1 THEN m ELSE n

(* a op b, elementwise, for broadcastable shapes *)
Elementwise(a, b, Op(_, _)) ==
    Arr(BroadcastLen(Size(a), Size(b)),
        LAMBDA j : Op(a[IF Size(a) = 1 THEN 0 ELSE j], b[IF Size(b) = 1 THEN 0 ELSE j]))

(* a[start:stop] = rhs is accepted *)
SliceAssignable(a, start, stop, rhs) ==
    Size(rhs) = Size(PySlice(a, start, stop)) \/ Size(rhs) = 1

(* a after a[start:stop] = rhs *)
SliceAssign(a, start, stop, rhs) ==
    LET lo == SliceBound(start, Size(a))
        hi == SliceBound(stop, Size(a))
    IN  [i \in DOMAIN a |->
            IF lo <= i /\ i < hi THEN rhs[IF Size(rhs) = 1 THEN 0 ELSE i - lo] ELSE a[i]]

RECURSIVE SumTo(_, _)
SumTo(a, i) == IF i < 0 THEN 0 ELSE a[i] + SumTo(a, i - 1)

(* np.cumsum: cumsum[i] is the sum of a[0..i] *)
cumsum(a) == Arr(Size(a), LAMBDA i : SumTo(a, i))

(* np.arange(start, stop) of integers *)
arange_int(start, stop) == Arr(Max(stop - start, 0), LAMBDA j : start + j)

----------------------------------------------------------------------------
(* set_ratio_to_sw_average: the sliding mean and the ratio *)

(* an element of np.empty that was never assigned *)
Uninit == <<0, -1>>

np_empty(n) == Arr(n, LAMBDA i : Uninit)

Raise(exc) == [raised |-> exc, value |-> <<>>]

Return(v) == [raised |-> "none", value |-> v]

(* Lines 134: the right-hand side cumul_sum[0:min(sw, n-1)] / arange(1, min(n, sw+1)) *)
head_means_num(cumul_sum, tail_len, sw) == PySlice(cumul_sum, 0, Min(sw, tail_len))

head_means_den(tail_len, sw) == arange_int(1, Min(tail_len + 1, sw + 1))

(* the array mean_sliding of lines 130-135, or the exception numpy raises *)
mean_sliding_nomin(val, n_pts, sw) ==
    LET cumul_sum == cumsum(val)
        m1  == [i \in 0..(n_pts - 1) |-> IF i = 0 THEN Whole(val[0]) ELSE np_empty(n_pts)[i]]
        num == PySlice(cumul_sum, 0, sw)
        den == arange_int(1, sw + 1)
        hi  == PySlice(cumul_sum, sw, -1)
        lo  == PySlice(cumul_sum, 0, -sw - 1)
    IN  IF Size(val) = 0 THEN Raise("IndexError")
        ELSE IF ~Broadcastable(Size(num), Size(den)) THEN Raise("ValueError")
        ELSE LET rhs2 == Elementwise(num, den, Frac)
             IN  IF ~SliceAssignable(m1, 1, sw + 1, rhs2) THEN Raise("ValueError")
                 ELSE LET m2 == SliceAssign(m1, 1, sw + 1, rhs2)
                      IN  IF ~Broadcastable(Size(hi), Size(lo)) THEN Raise("ValueError")
                          ELSE LET diff == Elementwise(hi, lo, LAMBDA a, b : a - b)
                                   rhs3 == Arr(Size(diff), LAMBDA j : Frac(diff[j], sw))
                               IN  IF ~SliceAssignable(m2, sw + 1, n_pts, rhs3)
                                   THEN Raise("ValueError")
                                   ELSE Return(SliceAssign(m2, sw + 1, n_pts, rhs3))

mean_sliding(val, n_pts, sw) ==
    LET cumul_sum == cumsum(val)
        m1  == [i \in 0..(n_pts - 1) |-> IF i = 0 THEN Whole(val[0]) ELSE np_empty(n_pts)[i]]
        tail_len == Size(PySlice(m1, 1, n_pts))
        num == head_means_num(cumul_sum, tail_len, sw)
        den == head_means_den(tail_len, sw)
        hi  == PySlice(cumul_sum, sw, -1)
        lo  == PySlice(cumul_sum, 0, -sw - 1)
    IN  IF Size(val) = 0 THEN Raise("IndexError")
        ELSE IF ~Broadcastable(Size(num), Size(den)) THEN Raise("ValueError")
        ELSE LET rhs2 == Elementwise(num, den, Frac)
             IN  IF ~SliceAssignable(m1, 1, sw + 1, rhs2) THEN Raise("ValueError")
                 ELSE LET m2 == SliceAssign(m1, 1, sw + 1, rhs2)
                      IN  IF ~Broadcastable(Size(hi), Size(lo)) THEN Raise("ValueError")
                          ELSE LET diff == Elementwise(hi, lo, LAMBDA a, b : a - b)
                                   rhs3 == Arr(Size(diff), LAMBDA j : Frac(diff[j], sw))
                               IN  IF ~SliceAssignable(m2, sw + 1, n_pts, rhs3)
                                   THEN Raise("ValueError")
                                   ELSE Return(SliceAssign(m2, sw + 1, n_pts, rhs3))

(* util.divide_treatzero(a, b, zero_divzero, nonzero_divzero): a / b elementwise,
   with a fixed substitute where b is 0 *)
divide_treatzero(a, b, zero_by_zero, nonzero_by_zero) ==
    Elementwise(a, b,
        LAMBDA x, m : IF m[1] = 0 /\ IsFinite(m)
                      THEN (IF x = 0 THEN Whole(zero_by_zero) ELSE Whole(nonzero_by_zero))
                      ELSE RDiv(Whole(x), m))

(* self.label[0:6] *)
label_prefix(label) == SubSeq(label, 1, Min(6, Len(label)))

(* Lines 137-140, with numpy's plain division in place of the safe one *)
ratio_or_difference_plain(val, mean, label) ==
    IF label_prefix(label) = <<"a", "u", "t", "o", "c", "o">>
    THEN Elementwise(val, mean, LAMBDA x, m : RSub(Whole(x), m))
    ELSE Elementwise(val, mean, LAMBDA x, m : RDiv(Whole(x), m))

(* the two substitutes passed to util.divide_treatzero on line 140 *)
zero_divzero == 1

nonzero_divzero == 1

(* Lines 137-140 *)
ratio_or_difference(val, mean, label) ==
    IF label_prefix(label) = <<"a", "u", "t", "o", "c", "o">>
    THEN Elementwise(val, mean, LAMBDA x, m : RSub(Whole(x), m))
    ELSE divide_treatzero(val, mean, zero_divzero, nonzero_divzero)

----------------------------------------------------------------------------
(* Rolling statistics *)

(* pandas Series.rolling(window=w, min_periods=1): the window ending at i holds the
   last w samples, i included, or all i+1 samples when fewer are available *)
rolling_window(val, w, i) ==
    LET first == Max(0, i - w + 1)
    IN  Arr(i - first + 1, LAMBDA j : val[first + j])

RECURSIVE SumSq(_, _)
SumSq(a, i) == IF i < 0 THEN 0 ELSE a[i] * a[i] + SumSq(a, i - 1)

(* Rolling.var(): unbiased sample variance, NaN for a single sample *)
sample_var(y) ==
    LET k == Size(y)
        s == SumTo(y, k - 1)
    IN  IF k < 2 THEN NaN ELSE Frac(k * SumSq(y, k - 1) - s * s, k * (k - 1))

(* Series.autocorr(): Pearson correlation r of y[1:] with y[:-1], NaN for fewer than
   two pairs or a zero variance.  r is irrational in general; it is recorded exactly
   as <<sign(r), num, den>> with r^2 = num/den, and NaN as <<0, 0, 0>>. *)
autocorr(y) ==
    LET m   == Size(y) - 1
        a   == Arr(Max(m, 0), LAMBDA j : y[j + 1])
        b   == Arr(Max(m, 0), LAMBDA j : y[j])
        ab  == Arr(Max(m, 0), LAMBDA j : y[j + 1] * y[j])
        sa  == SumTo(a, m - 1)
        sb  == SumTo(b, m - 1)
        sxx == m * SumSq(a, m - 1) - sa * sa
        syy == m * SumSq(b, m - 1) - sb * sb
        sxy == m * SumTo(ab, m - 1) - sa * sb
    IN  IF m < 1 \/ sxx * syy = 0 THEN <<0, 0, 0>>
        ELSE <<Sign(sxy)>> \o Frac(sxy * sxy, sxx * syy)

Pairs(k) == {p \in (0..(k - 1)) \X (0..(k - 1)) : p[1] < p[2]}

(* scipy.stats.kendalltau(x, y, variant='c').statistic *)
kendalltau_c(x, y) ==
    LET size == Size(x)
        all  == Pairs(size)
        tot  == (size * (size - 1)) \div 2
        xtie == Cardinality({p \in all : x[p[1]] = x[p[2]]})
        ytie == Cardinality({p \in all : y[p[1]] = y[p[2]]})
        ntie == Cardinality({p \in all : x[p[1]] = x[p[2]] /\ y[p[1]] = y[p[2]]})
        dis  == Cardinality({p \in all :
                    (x[p[1]] - x[p[2]]) * (y[p[1]] - y[p[2]]) < 0})
        con_minus_dis == tot - xtie - ytie + ntie - 2 * dis
        minclasses == Min(Cardinality({x[i] : i \in DOMAIN x}),
                          Cardinality({y[i] : i \in DOMAIN y}))
        tau  == Frac(2 * con_minus_dis * minclasses, size * size * (minclasses - 1))
    IN  IF size = 0 \/ xtie = tot \/ ytie = tot THEN NaN
        ELSE IF RLeq(Whole(1), tau) THEN Whole(1)
        ELSE IF RLeq(tau, Whole(-1)) THEN Whole(-1)
        ELSE tau

(* calc_kendall_tau without the NaN substitution of lines 199-200 *)
calc_kendall_tau_keepnan(variable) ==
    kendalltau_c(arange_int(0, Size(variable)), variable)

(* calc_kendall_tau with the positions counted backwards *)
calc_kendall_tau_reversed(variable) ==
    LET x   == Arr(Size(variable), LAMBDA j : Size(variable) - 1 - j)
        res == kendalltau_c(x, variable)
    IN  IF IsNaN(res) THEN Whole(0) ELSE res

calc_kendall_tau(variable) ==
    LET x   == arange_int(0, Size(variable))
        y   == variable
        res == kendalltau_c(x, y)
    IN  IF IsNaN(res) THEN Whole(0) ELSE res

(* x.rolling(window=w, min_periods=1).apply(f) and the like, as an array *)
rolling_apply(val, w, F(_)) == Arr(Size(val), LAMBDA i : F(rolling_window(val, w, i)))

----------------------------------------------------------------------------
(* np.arange(start, stop, step) for step > 0 holds ceil((stop - start) / step) points,
   the quotient being computed in floating point.  When the exact quotient is an
   integer q >= 0, rounding of stop may leave the computed quotient just above q:
   the array then holds q + 1 points instead of q.  up is that outcome. *)

EPS == 4

arange_tie(start, stop, step) == stop - start >= 0 /\ (stop - start) % step = 0

arange_len(start, stop, step, up) ==
    IF stop - start < 0 THEN 0
    ELSE IF arange_tie(start, stop, step)
         THEN (stop - start) \div step + (IF up THEN 1 ELSE 0)
         ELSE (stop - start + step - 1) \div step

arange(start, stop, step, up) ==
    Arr(arange_len(start, stop, step, up), LAMBDA j : start + j * step)

----------------------------------------------------------------------------
(* The TimeSeries object.  A method is an operator from the object to the outcome of
   the call: the object afterwards, the exception raised ("none" if it returned) and
   the derived sequences whose computation was carried out. *)

(* F applied to the value of v, v being evaluated once *)
Bind(v, F(_)) == CHOOSE out \in {F(x) : x \in {v}} : TRUE

Outcome(obj, exc, done) == [self |-> obj, raised |-> exc, computed |-> done]

HasAttr(obj, name) == obj[name] # None

(* TimeSeries.__init__ with cpstat=None, savename='' and record_all=False *)
TimeSeries(val, t_interval, tmin, sw_width_mean, sw_width_ews, label) ==
    LET set == val # None
    IN  [val              |-> val,
         n_pts            |-> IF set THEN Some(Size(val[1])) ELSE None,
         tmin             |-> IF set THEN Some(tmin) ELSE None,
         t_interval       |-> IF set THEN Some(t_interval) ELSE None,
         sw_width_mean    |-> IF set THEN Some(sw_width_mean) ELSE None,
         sw_width_ews     |-> IF set THEN Some(sw_width_ews) ELSE None,
         label            |-> label,
         t_pts            |-> None,
         variance         |-> None,
         autocorrelation  |-> None,
         skewness         |-> None,
         kendall_tau      |-> None,
         ratio_to_sw_mean |-> None]

exists(obj) == obj.val # None

(* the stop bound of line 143 *)
t_pts_stop(obj) == obj.tmin[1] + obj.n_pts[1] * obj.t_interval[1] - EPS

(* the outcomes floating-point rounding allows for the arange of line 143 *)
Roundings(obj) ==
    IF HasAttr(obj, "tmin") /\ arange_tie(obj.tmin[1], t_pts_stop(obj), obj.t_interval[1])
    THEN BOOLEAN ELSE {FALSE}

set_t_pts(obj, up) ==
    IF ~HasAttr(obj, "tmin") THEN Outcome(obj, "AttributeError", {})
    ELSE Outcome([obj EXCEPT !.t_pts =
                      Some(arange(obj.tmin[1], t_pts_stop(obj), obj.t_interval[1], up))],
                 "none", {"t_pts"})

set_ratio_to_sw_average(obj, rerun) ==
    IF obj.ratio_to_sw_mean = None \/ rerun
    THEN IF ~HasAttr(obj, "n_pts") THEN Outcome(obj, "AttributeError", {})
         ELSE Bind(mean_sliding(obj.val[1], obj.n_pts[1], obj.sw_width_mean[1]), LAMBDA m :
                  IF m.raised # "none" THEN Outcome(obj, m.raised, {})
                  ELSE Outcome([obj EXCEPT !.ratio_to_sw_mean =
                                    Some(ratio_or_difference(obj.val[1], m.value, obj.label))],
                               "none", {"ratio_to_sw_mean"}))
    ELSE Outcome(obj, "none", {})

set_variance(obj) ==
    IF ~HasAttr(obj, "sw_width_ews") THEN Outcome(obj, "AttributeError", {})
    ELSE Outcome([obj EXCEPT !.variance =
                      Some(rolling_apply(obj.val[1], obj.sw_width_ews[1], sample_var))],
                 "none", {"variance"})

(* x = pd.Series(x) reads the local x before it is bound *)
set_skewness(obj) == Outcome(obj, "UnboundLocalError", {})

set_autocorrelation(obj) ==
    IF ~HasAttr(obj, "sw_width_ews") THEN Outcome(obj, "AttributeError", {})
    ELSE Outcome([obj EXCEPT !.autocorrelation =
                      Some(rolling_apply(obj.val[1], obj.sw_width_ews[1], autocorr))],
                 "none", {"autocorrelation"})

set_kendall_tau(obj, rerun) ==
    IF exists(obj) /\ (obj.kendall_tau = None \/ rerun)
    THEN Outcome([obj EXCEPT !.kendall_tau =
                      Some(rolling_apply(obj.val[1], obj.sw_width_ews[1], calc_kendall_tau))],
                 "none", {"kendall_tau"})
    ELSE Outcome(obj, "none", {})

(* statement sequencing: the next call runs unless an exception is propagating *)
Then(r, Method(_)) ==
    Bind(r, LAMBDA p :
        IF p.raised # "none" THEN p
        ELSE Bind(Method(p.self), LAMBDA q :
                 Outcome(q.self, q.raised, p.computed \cup q.computed)))

set_all_vars(obj, up) ==
    Then(Then(Then(Then(Then(set_t_pts(obj, up),
        LAMBDA o : set_ratio_to_sw_average(o, FALSE)),
        set_variance),
        set_autocorrelation),
        set_skewness),
        LAMBDA o : set_kendall_tau(o, FALSE))

(* plot1d with any arguments: the time axis is computed if it is absent, then
   plot.draw_1d, which leaves the object alone, is called *)
plot1d(obj, up) ==
    IF obj.t_pts = None THEN set_t_pts(obj, up) ELSE Outcome(obj, "none", {})

(* a call of a method that declares no rerun parameter: passing rerun=True is
   rejected before the body runs *)
CallNoRerun(obj, Method(_), rerun) ==
    IF rerun THEN Outcome(obj, "TypeError", {}) ELSE Method(obj)

----------------------------------------------------------------------------
(* State machine: one object, and the outcome of the latest call on it *)

Arrays == UNION {[0..(n - 1) -> Vals] : n \in 1..MaxLen}

(* series of zero and non-zero samples: the sliding mean is linear in the samples, so
   these tell any two windows apart *)
RatioArrays == UNION {[0..(n - 1) -> RatioVals] : n \in 1..MaxLen}

(* np.array([]) *)
EmptyArray == [i \in {} |-> 0]

Constructed(vals, dts, t0s, swms, swes, labels) ==
    /\ \E val \in vals, dt \in dts, t0 \in t0s, swm \in swms, swe \in swes, label \in labels :
          self = TimeSeries(val, dt, t0, swm, swe, label)
    /\ last = [op |-> "__init__", rerun |-> FALSE, raised |-> "none", computed |-> {}]

(* any object: absent, empty or populated series, every parameter drawn from its set.
   record_all=True is the same construction followed by Call_set_all_vars. *)
Init ==
    Constructed({None, Some(EmptyArray)} \cup {Some(a) : a \in Arrays}, TIntervals, TMins, Widths, Widths, Labels)

(* populated series, the parameters of the ratio drawn from their sets *)
InitRatio ==
    Constructed({Some(a) : a \in RatioArrays}, {DefaultTInterval}, {DefaultTMin},
                Widths, {DefaultSwWidthEws}, Labels)

(* populated series, the window of the rolling statistics drawn from its set *)
InitEws ==
    Constructed({Some(a) : a \in Arrays}, {DefaultTInterval}, {DefaultTMin},
                {DefaultSwWidthMean}, Widths, {DefaultLabel})

Finish(op, rerun, r) ==
    \E o \in {r} :
        /\ self' = o.self
        /\ last' = [op |-> op, rerun |-> rerun, raised |-> o.raised, computed |-> o.computed]

Call_set_all_vars ==
    \E up \in Roundings(self) : Finish("set_all_vars", FALSE, set_all_vars(self, up))

Call_set_t_pts ==
    \E up \in Roundings(self) : Finish("set_t_pts", FALSE, set_t_pts(self, up))

Call_plot1d ==
    \E up \in Roundings(self) : Finish("plot1d", FALSE, plot1d(self, up))

Call_set_ratio_to_sw_average ==
    \E rerun \in BOOLEAN :
        Finish("set_ratio_to_sw_average", rerun, set_ratio_to_sw_average(self, rerun))

Call_set_variance ==
    \E rerun \in BOOLEAN : Finish("set_variance", rerun, CallNoRerun(self, set_variance, rerun))

Call_set_skewness ==
    \E rerun \in BOOLEAN : Finish("set_skewness", rerun, CallNoRerun(self, set_skewness, rerun))

Call_set_autocorrelation ==
    \E rerun \in BOOLEAN :
        Finish("set_autocorrelation", rerun, CallNoRerun(self, set_autocorrelation, rerun))

Call_set_kendall_tau ==
    \E rerun \in BOOLEAN : Finish("set_kendall_tau", rerun, set_kendall_tau(self, rerun))

Next ==
    \/ Call_set_all_vars
    \/ Call_set_t_pts
    \/ Call_set_ratio_to_sw_average
    \/ Call_set_variance
    \/ Call_set_skewness
    \/ Call_set_autocorrelation
    \/ Call_set_kendall_tau
    \/ Call_plot1d

Spec == Init /\ [][Next]_vars

SpecRatio == InitRatio /\ [][Next]_vars

SpecEws == InitEws /\ [][Next]_vars

----------------------------------------------------------------------------
(* Reference definitions used to state the properties *)

RECURSIVE SumRange(_, _, _)
SumRange(a, lo, hi) == IF hi < lo THEN 0 ELSE a[hi] + SumRange(a, lo, hi - 1)

(* mean of val[max(0, i-sw)] .. val[i-1], and val[0] at index 0 *)
MeanBefore(val, sw, i) ==
    IF i = 0 THEN Whole(val[0])
    ELSE Frac(SumRange(val, Max(0, i - sw), i - 1), i - Max(0, i - sw))

BeginsWithAutoco(label) ==
    Len(label) >= 6 /\ SubSeq(label, 1, 6) = <<"a", "u", "t", "o", "c", "o">>

IsZero(q) == q = Whole(0)

(* the window max(0, i-w) .. i of the class docstring, i included *)
DocumentedWindow(val, w, i) ==
    Arr(i - Max(0, i - w) + 1, LAMBDA j : val[Max(0, i - w) + j])

StrictlyIncreasing(val) == \A i \in DOMAIN val : i + 1 \in DOMAIN val => val[i] < val[i + 1]

StrictlyDecreasing(val) == \A i \in DOMAIN val : i + 1 \in DOMAIN val => val[i] > val[i + 1]

AllEqual(y) == \A i, j \in DOMAIN y : y[i] = y[j]

Derived == {"t_pts", "ratio_to_sw_mean", "variance", "autocorrelation", "skewness",
            "kendall_tau"}

Statistics == Derived \ {"t_pts"}

SetterOf(f) ==
    CASE f = "t_pts"            -> "set_t_pts"
      [] f = "ratio_to_sw_mean" -> "set_ratio_to_sw_average"
      [] f = "variance"         -> "set_variance"
      [] f = "autocorrelation"  -> "set_autocorrelation"
      [] f = "skewness"         -> "set_skewness"
      [] f = "kendall_tau"      -> "set_kendall_tau"

(* the statistic f as computed on a newly constructed object with the inputs of obj *)
Fresh(obj, f) ==
    LET new == TimeSeries(obj.val, obj.t_interval[1], obj.tmin[1], obj.sw_width_mean[1],
                          obj.sw_width_ews[1], obj.label)
    IN  CASE f = "ratio_to_sw_mean" -> set_ratio_to_sw_average(new, FALSE).self[f]
          [] f = "variance"         -> set_variance(new).self[f]
          [] f = "autocorrelation"  -> set_autocorrelation(new).self[f]
          [] f = "skewness"         -> set_skewness(new).self[f]
          [] f = "kendall_tau"      -> set_kendall_tau(new, FALSE).self[f]

----------------------------------------------------------------------------
(* C1: on a populated series, set_ratio_to_sw_average returns without an index or
   shape error for every length and window width, and the stored result at i is
   val[i] minus (label beginning with 'autoco') or divided by (otherwise, non-zero
   mean) the mean of val[max(0, i-sw)] .. val[i-1], the mean at index 0 being val[0]. *)
C1_RatioUsesPrecedingWindow ==
    exists(self) =>
        /\ last.op = "set_ratio_to_sw_average" =>
              last.raised = "none" /\ self.ratio_to_sw_mean # None
        /\ self.ratio_to_sw_mean # None =>
              LET r   == self.ratio_to_sw_mean[1]
                  val == self.val[1]
              IN  /\ DOMAIN r = DOMAIN val
                  /\ \A i \in DOMAIN val :
                        LET m == MeanBefore(val, self.sw_width_mean[1], i)
                        IN  IF BeginsWithAutoco(self.label)
                            THEN r[i] = RSub(Whole(val[i]), m)
                            ELSE ~IsZero(m) => r[i] = RDiv(Whole(val[i]), m)

(* a series longer than sw_width_mean + 1 whose ratio was computed by the operation *)
C1_Witness ==
    /\ last.op = "set_ratio_to_sw_average"
    /\ "ratio_to_sw_mean" \in last.computed
    /\ self.n_pts[1] > self.sw_width_mean[1] + 1
    /\ self.val[1][0] # 0
    /\ self.ratio_to_sw_mean # None

(* C4 as stated: wherever the sliding mean is 0, the stored result is the fallback
   constant of the zero-division policy. *)
C4_FallbackAtEveryZeroMean ==
    self.ratio_to_sw_mean # None =>
        \A i \in DOMAIN self.val[1] :
            IsZero(MeanBefore(self.val[1], self.sw_width_mean[1], i)) =>
                self.ratio_to_sw_mean[1][i] = Whole(1)

(* C4 (amended): when the label does not begin with 'autoco', wherever the sliding
   mean is 0 the stored result is the fallback constant 1; for every label the
   operation does not raise and every stored result, index 0 included, is a finite
   number (never NaN or infinity). *)
C4_FallbackWhenDividing ==
    exists(self) =>
        /\ last.op = "set_ratio_to_sw_average" => last.raised = "none"
        /\ self.ratio_to_sw_mean # None =>
              \A i \in DOMAIN self.val[1] :
                  /\ IsFinite(self.ratio_to_sw_mean[1][i])
                  /\ (~BeginsWithAutoco(self.label)
                      /\ IsZero(MeanBefore(self.val[1], self.sw_width_mean[1], i)))
                        => self.ratio_to_sw_mean[1][i] = Whole(1)

(* a division of a non-zero sample by a zero mean has taken place *)
C4_Witness ==
    /\ last.op = "set_ratio_to_sw_average"
    /\ "ratio_to_sw_mean" \in last.computed
    /\ ~BeginsWithAutoco(self.label)
    /\ \E i \in DOMAIN self.val[1] :
          /\ i >= 1
          /\ self.val[1][i] # 0
          /\ IsZero(MeanBefore(self.val[1], self.sw_width_mean[1], i))
          /\ self.ratio_to_sw_mean[1][i] = Whole(1)

(* C9: every stored Kendall's tau lies in [-1, 1]; on a strictly increasing series it
   is exactly 1, and on a strictly decreasing series exactly -1, at every index whose
   rolling window holds at least two samples. *)
C9_TauOfMonotonicSeries ==
    self.kendall_tau # None =>
        LET tau == self.kendall_tau[1]
            val == self.val[1]
        IN  \A i \in DOMAIN val :
               /\ IsFinite(tau[i]) /\ RLeq(Whole(-1), tau[i]) /\ RLeq(tau[i], Whole(1))
               /\ Size(rolling_window(val, self.sw_width_ews[1], i)) >= 2 =>
                     /\ StrictlyIncreasing(val) => tau[i] = Whole(1)
                     /\ StrictlyDecreasing(val) => tau[i] = Whole(-1)

(* tau was computed on a strictly increasing series of three samples, window of two *)
C9_Witness ==
    /\ "kendall_tau" \in last.computed
    /\ self.n_pts[1] >= 3
    /\ self.sw_width_ews[1] >= 2
    /\ StrictlyIncreasing(self.val[1])
    /\ self.kendall_tau[1][2] = Whole(1)

(* C10: the Kendall's tau sequence holds no NaN; it is 0 wherever the rolling window
   holds a single sample or only equal values, hence 0 at index 0 and 0 everywhere
   for a constant series. *)
C10_UndefinedTauIsZero ==
    self.kendall_tau # None =>
        LET tau == self.kendall_tau[1]
            val == self.val[1]
        IN  /\ tau[0] = Whole(0)
            /\ \A i \in DOMAIN val :
                  /\ ~IsNaN(tau[i])
                  /\ AllEqual(rolling_window(val, self.sw_width_ews[1], i)) => tau[i] = Whole(0)
            /\ AllEqual(val) => \A i \in DOMAIN val : tau[i] = Whole(0)

(* tau was computed on a constant series whose windows hold two equal samples *)
C10_Witness ==
    /\ "kendall_tau" \in last.computed
    /\ self.n_pts[1] >= 2
    /\ self.sw_width_ews[1] >= 2
    /\ AllEqual(self.val[1])
    /\ self.kendall_tau[1][1] = Whole(0)

----------------------------------------------------------------------------
(* C2: set_all_vars on an object whose series is absent does not raise, and leaves
   every derived sequence absent. *)
C2_ComputeAllOnAbsentSeries ==
    (~exists(self) /\ last.op = "set_all_vars") =>
        /\ last.raised = "none"
        /\ \A f \in Derived : self[f] = None

(* C3: on a populated series, once set_all_vars has been called, and once any set_*
   operation of a statistic has been called, the sequences concerned are present
   and hold exactly n elements. *)
C3_DerivedSequencesHaveLengthN ==
    (exists(self) /\ self.n_pts[1] >= 1) =>
        /\ last.op = "set_all_vars" =>
              /\ last.raised = "none"
              /\ \A f \in Statistics :
                    self[f] # None /\ DOMAIN self[f][1] = 0..(self.n_pts[1] - 1)
        /\ \A f \in Statistics :
              (last.op = SetterOf(f) /\ ~last.rerun) =>
                  self[f] # None /\ DOMAIN self[f][1] = 0..(self.n_pts[1] - 1)

(* C5: the variance, autocorrelation and Kendall's tau stored at i are those of the
   min(i, sw_width_ews) + 1 samples val[max(0, i - sw_width_ews)] .. val[i]. *)
C5_WindowIsDocumentedWindow ==
    exists(self) =>
        \A i \in DOMAIN self.val[1] :
            LET y == DocumentedWindow(self.val[1], self.sw_width_ews[1], i)
            IN  /\ Size(y) = Min(i, self.sw_width_ews[1]) + 1
                /\ self.variance # None => self.variance[1][i] = sample_var(y)
                /\ self.autocorrelation # None => self.autocorrelation[1][i] = autocorr(y)
                /\ self.kendall_tau # None => self.kendall_tau[1][i] = calc_kendall_tau(y)

(* C6: a set_* operation called without a recompute flag while its sequence is
   cached carries out no computation and leaves the object unchanged. *)
C6_NoRecomputationWhenCached ==
    [][\A f \in Derived :
          (self[f] # None /\ last'.op = SetterOf(f) /\ ~last'.rerun) =>
              (last'.computed = {} /\ self' = self)]_vars

(* C7: for each statistic that is cached, its set_* operation called with rerun=True
   returns normally, carries out the computation, and stores the sequence a fresh
   computation on the same inputs produces. *)
C7_RerunRecomputes ==
    [][\A f \in Statistics :
          (self[f] # None /\ last'.op = SetterOf(f) /\ last'.rerun) =>
              /\ last'.raised = "none"
              /\ f \in last'.computed
              /\ self'[f] = Fresh(self, f)]_vars

(* C8: for n >= 1 the time axis holds exactly n points, the j-th being tmin + j * t_interval. *)
C8_TimeAxisHasNPoints ==
    (self.t_pts # None /\ self.n_pts[1] >= 1) =>
        /\ DOMAIN self.t_pts[1] = 0..(self.n_pts[1] - 1)
        /\ \A j \in DOMAIN self.t_pts[1] :
              self.t_pts[1][j] = self.tmin[1] + j * self.t_interval[1]

====
